---------------------------- MODULE Spec2Model ----------------------------
(***************************************************************************)
(* A model of farm/evaluation/metrics.py: the metric and report            *)
(* registries with their two dispatchers (compute_metrics,                 *)
(* compute_report_metrics), the span question-answering metrics            *)
(* (squad_EM, squad_EM_start, squad_f1_single, squad_f1, top_n_accuracy,    *)
(* confidence, metrics_per_bin, squad) and the text-similarity rank        *)
(* metric (text_similarity_avg_ranks).                                     *)
(*                                                                         *)
(* Numbers that Python computes with true division are exact rationals     *)
(* [num, den]; the value 0/0 stands for numpy's nan (np.mean of an empty   *)
(* list).  Python sequences are 1-based here: preds[i][0][0] of the source *)
(* is preds[i+1][1][1].                                                    *)
(***************************************************************************)
EXTENDS Integers, Sequences, FiniteSets, TLC

VARIABLES
    registered_metrics,   \* the module-level dict registered_metrics
    registered_reports,   \* the module-level dict registered_reports
    reg_log,              \* history: the register_* calls made so far, in order
    preds,                \* the preds argument of the last call
    labels,               \* the labels argument of the last call
    out                   \* the outcome of the last call (return value or raised error)

vars == <<registered_metrics, registered_reports, reg_log, preds, labels, out>>

(***************************************************************************)
(* Bounds of the model.                                                    *)
(***************************************************************************)
MaxRegs == 2      \* register_* calls in one behaviour
MaxLen == 1       \* length of the opaque preds / labels handed to the dispatchers

(***************************************************************************)
(* Part 1: registries and dispatch.                                        *)
(***************************************************************************)
Impls == {"impl_a", "impl_b"}

\* The names the if/elif chain of compute_metrics compares against.
BuiltinMetrics ==
    {"mcc", "acc", "acc_f1", "pear_spear", "seq_f1", "f1_macro", "squad",
     "mse", "r2", "top_n_accuracy", "text_similarity_metric"}

\* Names handed to register_metrics: one that shadows a built-in, one new.
MetricRegNames == {"acc", "custom"}
\* Names handed to compute_metrics.
MetricCallNames == BuiltinMetrics \cup {"custom", "unknown"}

\* The output types compute_report_metrics has a built-in handler for.
BuiltinReportTypes ==
    {"per_token", "per_sequence", "per_token_squad", "per_sequence_continuous"}
\* Names handed to register_report: one that shadows a built-in handler, one new.
ReportRegNames == {"per_token", "some_new_type"}
ReportCallTypes == BuiltinReportTypes \cup {"some_new_type", "unmapped"}
ModelTypes == {"multilabel_text_classification", "text_similarity", "text_classification"}
LabelList == <<"l0", "l1">>
Heads == [ph_output_type : ReportCallTypes, model_type : ModelTypes, label_list : {LabelList}]

\* Opaque argument lists of a given length.
OpaqueList(n) == [i \in 1..n |-> "x"]
OpaqueLists == {OpaqueList(n) : n \in 0..MaxLen}

NoOut == [op |-> "none"]

\* A Python dict: a function whose DOMAIN is the key set.
EmptyDict == [k \in {} |-> "none"]
DictSet(d, k, v) == [x \in (DOMAIN d) \cup {k} |-> IF x = k THEN v ELSE d[x]]

\* The value an opaque callable returns for its arguments.
CallResult(fn, args) == <<"return", fn, args>>

\* The result names of each built-in's mapping.
SimpleAccuracyKeys == {"acc"}
AccAndF1Keys == {"acc", "f1", "acc_and_f1"}
\* f1_macro reporting under the name acc_and_f1 already uses.
F1MacroKeysShort == {"f1"}
F1MacroKeys == {"f1_macro"}
PearsonAndSpearmanKeys == {"pearson", "spearman", "corr"}
SquadKeys ==
    {"EM", "f1", "top_n_accuracy", "confidence", "em_per_bin",
     "confidence_per_bin", "count_per_bin"}
TextSimilarityMetricKeys == AccAndF1Keys \cup {"average_rank"}

\* What an outcome of a dispatcher looks like.
Outcome(op, name, kind, fn, keys, value) ==
    [op |-> op, name |-> name, kind |-> kind, fn |-> fn, keys |-> keys, value |-> value]

BuiltinReturn(metric, fn, keys, p, l) ==
    Outcome("compute_metrics", metric, "builtin", fn, keys, CallResult(fn, <<p, l>>))

\* The built-in branches of compute_metrics' if/elif chain, in the source's order.
builtin_branch(metric, p, l) ==
    IF metric = "mcc"
    THEN BuiltinReturn(metric, "matthews_corrcoef", {"mcc"}, p, l)
    ELSE IF metric = "acc"
    THEN BuiltinReturn(metric, "simple_accuracy", SimpleAccuracyKeys, p, l)
    ELSE IF metric = "acc_f1"
    THEN BuiltinReturn(metric, "acc_and_f1", AccAndF1Keys, p, l)
    ELSE IF metric = "pear_spear"
    THEN BuiltinReturn(metric, "pearson_and_spearman", PearsonAndSpearmanKeys, p, l)
    ELSE IF metric = "seq_f1"
    THEN BuiltinReturn(metric, "ner_f1_score", {"seq_f1"}, p, l)
    ELSE IF metric = "f1_macro"
    THEN BuiltinReturn(metric, "f1_macro", F1MacroKeys, p, l)
    ELSE IF metric = "squad"
    THEN BuiltinReturn(metric, "squad", SquadKeys, p, l)
    ELSE IF metric = "mse"
    THEN BuiltinReturn(metric, "mean_squared_error", {"mse"}, p, l)
    ELSE IF metric = "r2"
    THEN BuiltinReturn(metric, "r2_score", {"r2"}, p, l)
    ELSE IF metric = "top_n_accuracy"
    THEN BuiltinReturn(metric, "top_n_accuracy", {"top_n_accuracy"}, p, l)
    ELSE IF metric = "text_similarity_metric"
    THEN BuiltinReturn(metric, "text_similarity_metric", TextSimilarityMetricKeys, p, l)
    ELSE Outcome("compute_metrics", metric, "none", "none", {}, "none")

\* The two last branches of the chain: the registry, then KeyError(metric).
registered_branch(metric, p, l, reg) ==
    IF metric \in DOMAIN reg
    THEN Outcome("compute_metrics", metric, "registered", reg[metric], {},
                 CallResult(reg[metric], <<p, l>>))
    ELSE Outcome("compute_metrics", metric, "KeyError", "none", {}, metric)

\* A dispatcher that consults the registry before the built-in names.
compute_metrics_registry_first(metric, p, l, reg) ==
    IF Len(p) # Len(l)
    THEN Outcome("compute_metrics", metric, "AssertionError", "none", {}, "none")
    ELSE IF metric \in DOMAIN reg \/ metric \notin BuiltinMetrics
    THEN registered_branch(metric, p, l, reg)
    ELSE builtin_branch(metric, p, l)

\* A dispatcher that checks the lengths only on the registry path.
compute_metrics_late_assert(metric, p, l, reg) ==
    IF metric \in BuiltinMetrics
    THEN builtin_branch(metric, p, l)
    ELSE IF Len(p) # Len(l)
    THEN Outcome("compute_metrics", metric, "AssertionError", "none", {}, "none")
    ELSE registered_branch(metric, p, l, reg)

\* compute_metrics(metric, preds, labels) against the registry reg: the assert,
\* then the built-in names, then the registry, then KeyError.
compute_metrics(metric, p, l, reg) ==
    IF Len(p) # Len(l)
    THEN Outcome("compute_metrics", metric, "AssertionError", "none", {}, "none")
    ELSE IF metric \in BuiltinMetrics
    THEN builtin_branch(metric, p, l)
    ELSE registered_branch(metric, p, l, reg)

\* A selection that tries the built-in handlers before the registry.
report_fn_builtin_first(output_type, reg) ==
    IF output_type = "per_token" THEN "token_classification_report"
    ELSE IF output_type = "per_sequence" THEN "classification_report"
    ELSE IF output_type = "per_token_squad" THEN "lambda_not_implemented"
    ELSE IF output_type = "per_sequence_continuous" THEN "r2_score"
    ELSE IF output_type \in DOMAIN reg THEN reg[output_type]
    ELSE "none"

\* The report function compute_report_metrics selects, "none" when it raises.
report_fn(output_type, reg) ==
    IF output_type \in DOMAIN reg THEN reg[output_type]
    ELSE IF output_type = "per_token" THEN "token_classification_report"
    ELSE IF output_type = "per_sequence" THEN "classification_report"
    ELSE IF output_type = "per_token_squad" THEN "lambda_not_implemented"
    ELSE IF output_type = "per_sequence_continuous" THEN "r2_score"
    ELSE "none"

\* The arguments the selected report function is called with.
report_args(head, p, l) ==
    IF head.ph_output_type \in {"per_sequence"}
    THEN IF head.model_type = "multilabel_text_classification"
         THEN [labels |-> l, preds |-> p, digits |-> 4,
               all_labels |-> [i \in 1..Len(head.label_list) |-> i - 1],
               target_names |-> head.label_list]
         ELSE IF head.model_type = "text_similarity"
         THEN [labels |-> <<"flattened", l>>, preds |-> <<"one_hot", p>>, digits |-> 4,
               all_labels |-> [i \in 1..Len(head.label_list) |-> i - 1],
               target_names |-> head.label_list]
         ELSE [labels |-> l, preds |-> p, digits |-> 4,
               all_labels |-> head.label_list,
               target_names |-> head.label_list]
    ELSE [labels |-> l, preds |-> p]

\* compute_report_metrics(head, preds, labels) against the registry reg.
compute_report_metrics(head, p, l, reg) ==
    LET fn == report_fn(head.ph_output_type, reg) IN
    IF fn = "none"
    THEN Outcome("compute_report_metrics", head.ph_output_type, "AttributeError",
                 "none", {}, head.ph_output_type)
    ELSE Outcome("compute_report_metrics", head.ph_output_type, "report", fn, {},
                 CallResult(fn, report_args(head, p, l)))

RegistryInit ==
    /\ registered_metrics = EmptyDict
    /\ registered_reports = EmptyDict
    /\ reg_log = <<>>

Init ==
    /\ RegistryInit
    /\ preds = <<>>
    /\ labels = <<>>
    /\ out = NoOut

register_metrics(name, implementation) ==
    /\ Len(reg_log) < MaxRegs
    /\ registered_metrics' = DictSet(registered_metrics, name, implementation)
    /\ reg_log' = Append(reg_log, [kind |-> "metric", name |-> name, impl |-> implementation])
    /\ UNCHANGED <<registered_reports, preds, labels, out>>

register_report(name, implementation) ==
    /\ Len(reg_log) < MaxRegs
    /\ registered_reports' = DictSet(registered_reports, name, implementation)
    /\ reg_log' = Append(reg_log, [kind |-> "report", name |-> name, impl |-> implementation])
    /\ UNCHANGED <<registered_metrics, preds, labels, out>>

ComputeMetrics(metric, p, l) ==
    /\ preds' = p
    /\ labels' = l
    /\ out' = compute_metrics(metric, p, l, registered_metrics)
    /\ UNCHANGED <<registered_metrics, registered_reports, reg_log>>

ComputeReportMetrics(head, p, l) ==
    /\ preds' = p
    /\ labels' = l
    /\ out' = compute_report_metrics(head, p, l, registered_reports)
    /\ UNCHANGED <<registered_metrics, registered_reports, reg_log>>

Next ==
    \/ \E name \in MetricRegNames, impl \in Impls : register_metrics(name, impl)
    \/ \E name \in ReportRegNames, impl \in Impls : register_report(name, impl)
    \/ \E metric \in MetricCallNames, p \in OpaqueLists, l \in OpaqueLists :
           ComputeMetrics(metric, p, l)
    \/ \E head \in Heads, n \in 0..MaxLen :
           ComputeReportMetrics(head, OpaqueList(n), OpaqueList(n))

Spec == Init /\ [][Next]_vars


(***************************************************************************)
(* Part 2: span question answering.  A candidate is a record with the      *)
(* fields the source reads (offset_answer_start, offset_answer_end,        *)
(* score); preds[i] is a one-element list holding document i's ranked      *)
(* candidate list; labels[i] is the set of document i's gold (start, end)  *)
(* pairs.                                                                  *)
(***************************************************************************)
MaxOff == 2       \* largest character offset of a span
MaxCands == 2     \* candidates per document in the single-document batches
MaxGold == 2      \* gold spans per document in the single-document batches
MaxDocs == 2      \* documents in the scored batches
ScoreDen == 10    \* scores are the multiples of 1/ScoreDen in [0, 1]
NBins == 10       \* the number of confidence bins

RECURSIVE GCD(_, _)
GCD(a, b) == IF b = 0 THEN a ELSE GCD(b, a % b)

\* Rationals in lowest terms; den = 0 is nan.
Rat(n, d) ==
    IF d = 0 THEN [num |-> 0, den |-> 0]
    ELSE LET g == GCD(n, d) IN [num |-> n \div g, den |-> d \div g]
NaN == Rat(0, 0)
Zero == Rat(0, 1)
One == Rat(1, 1)
IsNaN(a) == a.den = 0
RatAdd(a, b) ==
    IF IsNaN(a) \/ IsNaN(b) THEN NaN ELSE Rat(a.num * b.den + b.num * a.den, a.den * b.den)
RatMul(a, b) == IF IsNaN(a) \/ IsNaN(b) THEN NaN ELSE Rat(a.num * b.num, a.den * b.den)
\* a / b for b > 0.
RatDiv(a, b) == IF IsNaN(a) \/ IsNaN(b) THEN NaN ELSE Rat(a.num * b.den, a.den * b.num)
\* Python's and numpy's a >= b: False when either side is nan.
RatGeq(a, b) == ~IsNaN(a) /\ ~IsNaN(b) /\ a.num * b.den >= b.num * a.den

RECURSIVE RatSum(_)
RatSum(seq) == IF seq = <<>> THEN Zero ELSE RatAdd(Head(seq), RatSum(Tail(seq)))

\* max() of a non-empty collection of numbers.
RatMax(S) == CHOOSE x \in S : \A y \in S : RatGeq(x, y)

\* np.mean of a list: nan (with a RuntimeWarning, not an exception) when empty.
np_mean(seq) == IF Len(seq) = 0 THEN NaN ELSE RatDiv(RatSum(seq), Rat(Len(seq), 1))

\* len(list(range(a, b + 1))) and the members of that range.
RangeLen(a, b) == IF b >= a THEN b - a + 1 ELSE 0
RangeSet(a, b) == a..b

\* The documents, in batch order from i on, whose bin index is b: the order
\* in which the loop appends them to pred_bins[b] and label_bins[b].
RECURSIVE bin_members(_, _, _)
bin_members(bins, i, b) ==
    IF i > Len(bins) THEN <<>>
    ELSE IF bins[i] = b THEN <<i>> \o bin_members(bins, i + 1, b)
    ELSE bin_members(bins, i + 1, b)

\* squad_EM: the best candidate's (start, end) pair is one of the labels.
squad_EM(ps, ls) ==
    LET n_docs == Len(ps)
        n_correct == Cardinality({doc_idx \in 1..n_docs :
            LET qa_candidate == ps[doc_idx][1][1]
                pred_start == qa_candidate.offset_answer_start
                pred_end == qa_candidate.offset_answer_end
            IN <<pred_start, pred_end>> \in ls[doc_idx]})
    IN IF n_docs # 0 THEN Rat(n_correct, n_docs) ELSE Zero

\* squad_EM_start: curr_label = [label[1] for label in curr_labels] takes the
\* second component of each (start, end) label.
squad_EM_start(ps, ls) ==
    LET n_docs == Len(ps)
        n_correct == Cardinality({doc_idx \in 1..n_docs :
            LET qa_candidate == ps[doc_idx][1][1]
                pred == qa_candidate.offset_answer_start
                curr_label == {label[2] : label \in ls[doc_idx]}
            IN pred \in curr_label})
    IN IF n_docs # 0 THEN Rat(n_correct, n_docs) ELSE Zero

\* A squad_f1_single whose ranges leave out the end offset.
squad_f1_single_exclusive(pred, label, pred_idx) ==
    LET label_start == label[1]
        label_end == label[2]
        span == pred[pred_idx]
        pred_start == span.offset_answer_start
        pred_end == span.offset_answer_end
        n_overlap == Cardinality(RangeSet(pred_start, pred_end - 1)
                                 \cap RangeSet(label_start, label_end - 1))
    IN IF (pred_start + pred_end = 0) \/ (label_start + label_end = 0)
       THEN IF pred_start = label_start THEN One ELSE Zero
       ELSE IF n_overlap = 0 THEN Zero
       ELSE Rat(2 * n_overlap, RangeLen(pred_start, pred_end - 1) + RangeLen(label_start, label_end - 1))

\* squad_f1_single(pred, label, pred_idx): pred is a candidate list.
squad_f1_single(pred, label, pred_idx) ==
    LET label_start == label[1]
        label_end == label[2]
        span == pred[pred_idx]
        pred_start == span.offset_answer_start
        pred_end == span.offset_answer_end
        len_pred_span == RangeLen(pred_start, pred_end)
        len_label_span == RangeLen(label_start, label_end)
        n_overlap == Cardinality({x \in RangeSet(pred_start, pred_end) :
                                    x \in RangeSet(label_start, label_end)})
        precision == Rat(n_overlap, len_pred_span)
        recall == Rat(n_overlap, len_label_span)
    IN IF (pred_start + pred_end = 0) \/ (label_start + label_end = 0)
       THEN IF pred_start = label_start THEN One ELSE Zero
       ELSE IF n_overlap = 0 THEN Zero
       ELSE RatDiv(RatMul(Rat(2, 1), RatMul(precision, recall)), RatAdd(precision, recall))

\* squad_f1: the mean over documents of the best candidate's best F1.
squad_f1(ps, ls) ==
    LET f1_scores == [i \in 1..Len(ps) |->
            LET best_pred == ps[i][1]
            IN RatMax({squad_f1_single(best_pred, label, 1) : label \in ls[i]})]
    IN np_mean(f1_scores)

\* The value of f1_score when the loop over current_preds ends: it stops at
\* the first candidate whose best F1 is nonzero.
RECURSIVE scan_candidates(_, _, _, _)
scan_candidates(current_preds, curr_labels, idx, f1_score) ==
    IF idx > Len(current_preds) THEN f1_score
    ELSE LET f1 == RatMax({squad_f1_single(current_preds, label, idx) : label \in curr_labels})
         IN IF f1 # Zero THEN f1
            ELSE scan_candidates(current_preds, curr_labels, idx + 1, f1)

\* top_n_accuracy: the mean of the 0/1 hit flags.
top_n_accuracy(ps, ls) ==
    LET answer_in_top_n == [i \in 1..Len(ps) |->
            IF scan_candidates(ps[i][1], ls[i], 1, Zero) # Zero THEN One ELSE Zero]
    IN np_mean(answer_in_top_n)

\* confidence: the mean best-candidate score, 0 for no documents.
confidence(ps) ==
    LET conf == RatSum([i \in 1..Len(ps) |-> ps[i][1][1].score])
    IN IF Len(ps) # 0 THEN RatDiv(conf, Rat(Len(ps), 1)) ELSE Zero

\* A bin index computed without folding the score 1.0 into the top bin.
bin_index_unclamped(score) == (score.num * 10) \div score.den

\* int(current_score*10) after a score of exactly 1.0 was replaced by 0.9999.
bin_index(score) ==
    LET current_score == IF score = One THEN Rat(9999, 10000) ELSE score
    IN (current_score.num * 10) \div current_score.den

\* metrics_per_bin: (em_per_bin, confidence_per_bin, count_per_bin), or the
\* IndexError of a bin index outside the 10 lists.
metrics_per_bin(ps, ls) ==
    LET n == IF Len(ps) <= Len(ls) THEN Len(ps) ELSE Len(ls)
        bins == [i \in 1..n |-> bin_index(ps[i][1][1].score)]
        members == [b \in 0..(NBins - 1) |-> bin_members(bins, 1, b)]
        pred_bins == [b \in 0..(NBins - 1) |-> [j \in 1..Len(members[b]) |-> ps[members[b][j]]]]
        label_bins == [b \in 0..(NBins - 1) |-> [j \in 1..Len(members[b]) |-> ls[members[b][j]]]]
        count_per_bin == [k \in 1..NBins |-> Len(members[k - 1])]
        em_per_bin == [k \in 1..NBins |->
            IF k - 1 \in 1..9 THEN squad_EM_start(pred_bins[k - 1], label_bins[k - 1]) ELSE Zero]
        confidence_per_bin == [k \in 1..NBins |->
            IF k - 1 \in 1..9 THEN confidence(pred_bins[k - 1]) ELSE Zero]
    IN IF \E i \in 1..n : bins[i] \notin 0..(NBins - 1)
       THEN [kind |-> "IndexError", value |-> "list index out of range"]
       ELSE [kind |-> "ok", value |-> <<em_per_bin, confidence_per_bin, count_per_bin>>]

\* squad: the seven results in one mapping.
squad(ps, ls) ==
    LET em == squad_EM(ps, ls)
        f1 == squad_f1(ps, ls)
        top_acc == top_n_accuracy(ps, ls)
        conf == confidence(ps)
        bins == metrics_per_bin(ps, ls)
    IN IF bins.kind # "ok" THEN bins
       ELSE [kind |-> "ok",
             value |-> [EM |-> em, f1 |-> f1, top_n_accuracy |-> top_acc,
                        confidence |-> conf, em_per_bin |-> bins.value[1],
                        confidence_per_bin |-> bins.value[2],
                        count_per_bin |-> bins.value[3]]]

\* The inputs: spans over the offsets 0..MaxOff (reversed, zero-length spans
\* included), scores k/ScoreDen.
Offsets == 0..MaxOff
Spans == Offsets \X Offsets
Score(k) == Rat(k, ScoreDen)
Candidate(span, k) ==
    [offset_answer_start |-> span[1], offset_answer_end |-> span[2], score |-> Score(k)]
SeqsUpTo(S, n) == UNION {[1..m -> S] : m \in 1..n}
SetsUpTo(S, n) == {G \in SUBSET S : Cardinality(G) \in 1..n}

\* The spans of the many-candidate and many-gold batches: no answer, the
\* widest span, its last offset alone, and the reversed (zero-length) span.
PoolSpans == {<<0, 0>>, <<0, MaxOff>>, <<MaxOff, MaxOff>>, <<MaxOff, 0>>}
MidScore == ScoreDen \div 2

\* One document, one candidate, one gold span: every pair of spans.
PairBatches ==
    {[preds |-> <<<<<<Candidate(sp, MidScore)>>>>>>, labels |-> <<{gold}>>] :
        sp \in Spans, gold \in Spans}
\* One document, up to MaxCands ranked candidates, one gold span.
RankedBatches ==
    {[preds |-> <<<<cands>>>>, labels |-> <<{gold}>>] :
        cands \in SeqsUpTo({Candidate(sp, MidScore) : sp \in PoolSpans}, MaxCands),
        gold \in Spans}
\* One document, one candidate, up to MaxGold gold spans.
MultiGoldBatches ==
    {[preds |-> <<<<<<Candidate(sp, MidScore)>>>>>>, labels |-> <<golds>>] :
        sp \in Spans, golds \in SetsUpTo(PoolSpans, MaxGold)}
\* Up to MaxDocs documents (none included), each with one candidate (1, 1)
\* under every score and one gold span that shares its start or its end.
ScoredDocs ==
    {[pred |-> <<<<Candidate(<<1, 1>>, k)>>>>, label |-> {gold}] :
        k \in 0..ScoreDen, gold \in {<<1, 2>>, <<0, 1>>}}
ScoredBatches ==
    {[preds |-> [i \in 1..Len(docs) |-> docs[i].pred],
      labels |-> [i \in 1..Len(docs) |-> docs[i].label]] :
        docs \in UNION {[1..m -> ScoredDocs] : m \in 0..MaxDocs}}
Batches == PairBatches \cup RankedBatches \cup MultiGoldBatches \cup ScoredBatches

\* The span metrics are pure functions of (preds, labels): a behaviour draws
\* one batch and makes one call on it, so every (batch, call) pair is reached.
InitQA ==
    /\ RegistryInit
    /\ \E b \in Batches : preds = b.preds /\ labels = b.labels
    /\ out = NoOut

CallSquadF1Single(doc, label, pred_idx) ==
    /\ out = NoOut
    /\ out' = [op |-> "squad_f1_single", kind |-> "ok", doc |-> doc, label |-> label,
               pred_idx |-> pred_idx,
               value |-> squad_f1_single(preds[doc][1], label, pred_idx)]
    /\ UNCHANGED <<registered_metrics, registered_reports, reg_log, preds, labels>>

CallSquadEMStart ==
    /\ out = NoOut
    /\ out' = [op |-> "squad_EM_start", kind |-> "ok", value |-> squad_EM_start(preds, labels)]
    /\ UNCHANGED <<registered_metrics, registered_reports, reg_log, preds, labels>>

CallMetricsPerBin ==
    /\ out = NoOut
    /\ out' = [op |-> "metrics_per_bin"] @@ metrics_per_bin(preds, labels)
    /\ UNCHANGED <<registered_metrics, registered_reports, reg_log, preds, labels>>

CallSquad ==
    /\ out = NoOut
    /\ out' = [op |-> "squad"] @@ squad(preds, labels)
    /\ UNCHANGED <<registered_metrics, registered_reports, reg_log, preds, labels>>

NextQA ==
    \/ \E doc \in 1..Len(preds) :
           \E label \in labels[doc], pred_idx \in 1..Len(preds[doc][1]) :
               CallSquadF1Single(doc, label, pred_idx)
    \/ CallSquadEMStart
    \/ CallMetricsPerBin
    \/ CallSquad

SpecQA == InitQA /\ [][NextQA]_vars

(***************************************************************************)
(* Part 3: text similarity.  preds[i] is query i's ranking, a list of      *)
(* passage indices (0-based values) best first; labels[i] is its 0/1       *)
(* relevance vector.                                                       *)
(***************************************************************************)
NumPassages == 2  \* passages per query
MaxQueries == 2   \* queries in a batch

\* (arr == v).nonzero()[0]: the 0-based positions of arr that hold v, ascending.
RECURSIVE nonzero_eq(_, _, _)
nonzero_eq(arr, v, j) ==
    IF j > Len(arr) THEN <<>>
    ELSE IF arr[j] = v THEN <<j - 1>> \o nonzero_eq(arr, v, j + 1)
    ELSE nonzero_eq(arr, v, j + 1)

\* reduce(lambda x, y: x + list((y == 1).nonzero()[0]), labels, [])
RECURSIVE positive_idx_per_question(_)
positive_idx_per_question(ls) ==
    IF ls = <<>> THEN <<>>
    ELSE nonzero_eq(Head(ls), 1, 1) \o positive_idx_per_question(Tail(ls))

\* A position of the gold passage counted from 1.
gold_rank_one_based(gold_idx) == gold_idx[1] + 1

\* gold_idx.item() of a one-element array.
gold_rank(gold_idx) == gold_idx[1]

\* The loop of text_similarity_avg_ranks from the i-th positive index on.
RECURSIVE accumulate_rank(_, _, _, _)
accumulate_rank(ps, positive, i, rank) ==
    IF i > Len(positive) THEN [kind |-> "ok", value |-> rank]
    ELSE IF i > Len(ps) THEN [kind |-> "IndexError", value |-> "list index out of range"]
    ELSE LET gold_idx == nonzero_eq(ps[i], positive[i], 1)
         IN IF Len(gold_idx) # 1
            THEN [kind |-> "ValueError", value |-> "can only convert an array of size 1"]
            ELSE accumulate_rank(ps, positive, i + 1, rank + gold_rank(gold_idx))

\* text_similarity_avg_ranks: float(rank / len(preds)).
text_similarity_avg_ranks(ps, ls) ==
    LET r == accumulate_rank(ps, positive_idx_per_question(ls), 1, 0)
    IN IF r.kind # "ok" THEN r
       ELSE IF Len(ps) = 0 THEN [kind |-> "ZeroDivisionError", value |-> "division by zero"]
       ELSE [kind |-> "ok", value |-> Rat(r.value, Len(ps))]

Passages == 0..(NumPassages - 1)
\* Rankings of all the passages, or of all but the last-ranked one.
Rankings ==
    {r \in [1..NumPassages -> Passages] \cup [1..(NumPassages - 1) -> Passages] :
        \A a, b \in DOMAIN r : a # b => r[a] # r[b]}
\* The relevance vectors with one gold passage, and the one with none.
RelevanceVectors ==
    {v \in [1..NumPassages -> {0, 1}] : Cardinality({j \in 1..NumPassages : v[j] = 1}) <= 1}
SimBatches ==
    UNION {[preds : [1..m -> Rankings], labels : [1..m -> RelevanceVectors]] : m \in 0..MaxQueries}

InitSim ==
    /\ RegistryInit
    /\ \E b \in SimBatches : preds = b.preds /\ labels = b.labels
    /\ out = NoOut

CallTextSimilarityAvgRanks ==
    /\ out' = [op |-> "text_similarity_avg_ranks"] @@ text_similarity_avg_ranks(preds, labels)
    /\ UNCHANGED <<registered_metrics, registered_reports, reg_log, preds, labels>>

NextSim == CallTextSimilarityAvgRanks

SpecSim == InitSim /\ [][NextSim]_vars

(***************************************************************************)
(* Claims about the registries and the dispatchers (specification Spec).   *)
(***************************************************************************)
MaxOf(S) == CHOOSE x \in S : \A y \in S : y <= x

\* The implementation most recently registered under name, read from the
\* history of register_* calls; "none" when there is none.
LastRegistered(kind, name) ==
    LET hits == {i \in 1..Len(reg_log) : reg_log[i].kind = kind /\ reg_log[i].name = name}
    IN IF hits = {} THEN "none" ELSE reg_log[MaxOf(hits)].impl

\* C1: after any sequence of register_metrics calls, compute_metrics on
\* equal-length arguments uses the built-in computation for a built-in name
\* (even when the registry holds that name), else calls the implementation
\* most recently registered under the name with (preds, labels) and returns
\* its value unchanged, else raises the unknown-metric error carrying the name.
C1_ResolutionOrder ==
    [][(reg_log' = reg_log /\ out'.op = "compute_metrics" /\ Len(preds') = Len(labels'))
        => LET last == LastRegistered("metric", out'.name) IN
           IF out'.name \in BuiltinMetrics
           THEN out'.kind = "builtin" /\ out'.fn \notin Impls
           ELSE IF last # "none"
           THEN /\ out'.kind = "registered"
                /\ out'.fn = last
                /\ out'.value = CallResult(last, <<preds', labels'>>)
           ELSE out'.kind = "KeyError" /\ out'.value = out'.name]_vars

\* C1 witness: a built-in name is computed by the built-in although the
\* registry holds an entry under the same name.
C1_Witness ==
    /\ out.op = "compute_metrics"
    /\ out.name = "acc"
    /\ "acc" \in DOMAIN registered_metrics
    /\ Len(preds) = Len(labels)
    /\ out.kind = "builtin"

\* C2: a step that calls compute_metrics with len(preds) # len(labels) ends in
\* the length-mismatch error for every metric name, invokes no metric function
\* and leaves both registries as they were.
C2_LengthMismatch ==
    [][(reg_log' = reg_log /\ out'.op = "compute_metrics" /\ Len(preds') # Len(labels'))
        => /\ out'.kind = "AssertionError"
           /\ out'.fn = "none"
           /\ registered_metrics' = registered_metrics
           /\ registered_reports' = registered_reports]_vars

\* C2 witness: a built-in name called with unequal lengths while the registry
\* is not empty ended in the assertion error.
C2_Witness ==
    /\ out.op = "compute_metrics"
    /\ out.name \in BuiltinMetrics
    /\ Len(preds) # Len(labels)
    /\ registered_metrics # EmptyDict
    /\ out.kind = "AssertionError"

\* C3: after any sequence of register_report calls, compute_report_metrics
\* uses the implementation most recently registered under head.ph_output_type
\* if there is one, else the built-in handler of the four named tags, else
\* raises the unsupported-report-type error that names the type, calling no
\* report function.
C3_ReportResolution ==
    [][(reg_log' = reg_log /\ out'.op = "compute_report_metrics")
        => LET last == LastRegistered("report", out'.name) IN
           IF last # "none"
           THEN out'.kind = "report" /\ out'.fn = last
           ELSE IF out'.name \in BuiltinReportTypes
           THEN out'.kind = "report" /\ out'.fn \notin Impls \cup {"none"}
           ELSE out'.kind = "AttributeError" /\ out'.fn = "none" /\ out'.value = out'.name]_vars

\* C3 witness: per_token was registered twice with different implementations
\* and the report used the later one instead of the built-in handler.
C3_Witness ==
    /\ out.op = "compute_report_metrics"
    /\ out.name = "per_token"
    /\ Len(reg_log) = 2
    /\ reg_log[1] = [kind |-> "report", name |-> "per_token", impl |-> "impl_a"]
    /\ reg_log[2] = [kind |-> "report", name |-> "per_token", impl |-> "impl_b"]
    /\ out.fn = "impl_b"

\* The result names built-in metric m returns for the current arguments.
KeysOf(m) == compute_metrics(m, preds, labels, registered_metrics).keys

\* The pairs of built-in metric names whose mappings share a result name.
SharedKeyPairs ==
    {{"acc", "acc_f1"}, {"acc", "text_similarity_metric"},
     {"acc_f1", "text_similarity_metric"}, {"acc_f1", "squad"},
     {"squad", "text_similarity_metric"}, {"squad", "top_n_accuracy"}}

\* C9 as stated: every built-in returns a mapping, and the result names of
\* two distinct built-in metric names never overlap.
C9_DisjointKeys ==
    (out.op = "compute_metrics" /\ out.kind = "builtin") =>
        /\ out.keys # {}
        /\ \A m \in BuiltinMetrics \ {out.name} : out.keys \cap KeysOf(m) = {}

\* C9 amended: every built-in returns a mapping with at least one result
\* name, and the result names of two distinct built-in metric names overlap
\* exactly for the six pairs of SharedKeyPairs.
C9_DisjointKeysExceptShared ==
    (out.op = "compute_metrics" /\ out.kind = "builtin") =>
        /\ out.keys # {}
        /\ \A m \in BuiltinMetrics \ {out.name} :
               (out.keys \cap KeysOf(m) = {}) <=> ({out.name, m} \notin SharedKeyPairs)

\* C9 witness: acc_f1 returned a mapping that shares the name acc with the
\* mapping of acc.
C9_Witness ==
    /\ out.op = "compute_metrics"
    /\ out.name = "acc_f1"
    /\ out.kind = "builtin"
    /\ "acc" \in out.keys \cap KeysOf("acc")

(***************************************************************************)
(* Claims about the span metrics (specification SpecQA).                   *)
(***************************************************************************)
RECURSIVE IntSum(_)
IntSum(seq) == IF seq = <<>> THEN 0 ELSE Head(seq) + IntSum(Tail(seq))

\* C4: squad_f1_single returns, when either span is (0,0), 1.0 if the starts
\* are equal and 0.0 otherwise; in every other case, with n the number of
\* integers common to the two inclusive ranges, 0 if n = 0 and otherwise
\* 2pr/(p+r) with p = n/|pred_span| and r = n/|label_span| (which is
\* 2n/(|pred_span| + |label_span|)).  Identical spans of nonzero length score
\* 1.0, disjoint spans 0.0, and (0,0) against (0,0) scores 1.0.
C4_OverlapF1 ==
    (out.op = "squad_f1_single") =>
        LET span == preds[out.doc][1][out.pred_idx]
            p == <<span.offset_answer_start, span.offset_answer_end>>
            l == out.label
            P == p[1]..p[2]
            L == l[1]..l[2]
            n == Cardinality(P \cap L)
            v == out.value
        IN /\ IF p = <<0, 0>> \/ l = <<0, 0>>
              THEN v = (IF p[1] = l[1] THEN One ELSE Zero)
              ELSE IF n = 0 THEN v = Zero
              ELSE /\ ~IsNaN(v)
                   /\ v.num * (Cardinality(P) + Cardinality(L)) = 2 * n * v.den
           /\ (p = l /\ P # {}) => v = One
           /\ (P \cap L = {}) => v = Zero
           /\ (p = <<0, 0>> /\ l = <<0, 0>>) => v = One

\* C4 witness: two spans, neither of them (0,0), that overlap in part were
\* scored strictly between 0 and 1.
C4_Witness ==
    /\ out.op = "squad_f1_single"
    /\ out.label # <<0, 0>>
    /\ preds[out.doc][1][out.pred_idx].offset_answer_start
         + preds[out.doc][1][out.pred_idx].offset_answer_end > 0
    /\ out.pred_idx = 2
    /\ out.value \notin {Zero, One}
    /\ RatGeq(out.value, Zero)

\* C5: for every index-aligned batch, top_n_accuracy >= squad_EM.
C5_TopNAtLeastEM ==
    (out.op = "squad" /\ out.kind = "ok") =>
        RatGeq(out.value.top_n_accuracy, out.value.EM)

\* The bin the documentation gives a score in [0, 1]: floor(score*10), and 9
\* for a score of exactly 1.
DocumentedBin(score) ==
    IF score = One THEN 9
    ELSE CHOOSE b \in 0..9 : b * score.den <= 10 * score.num /\ 10 * score.num < (b + 1) * score.den

\* C6: for scores in [0, 1] metrics_per_bin counts each document in exactly
\* one of the 10 bins, bin floor(score*10) with 1.0 counted in bin 9: the
\* counts sum to the number of documents and bin 9 holds exactly the
\* documents with score in [0.9, 1.0].
C6_BinCounts ==
    (out.op = "metrics_per_bin") =>
        /\ out.kind = "ok"
        /\ LET count_per_bin == out.value[3]
               score(i) == preds[i][1][1].score
           IN /\ Len(count_per_bin) = 10
              /\ \A b \in 0..9 :
                     count_per_bin[b + 1] =
                         Cardinality({i \in 1..Len(preds) : DocumentedBin(score(i)) = b})
              /\ IntSum(count_per_bin) = Len(preds)
              /\ count_per_bin[10] =
                     Cardinality({i \in 1..Len(preds) :
                         /\ 9 * score(i).den <= 10 * score(i).num
                         /\ score(i).num <= score(i).den})

\* C6 witness: a batch of two documents, one scored exactly 1.0 and one
\* scored below 0.9, was binned with one document in bin 9.
C6_Witness ==
    /\ out.op = "metrics_per_bin"
    /\ out.kind = "ok"
    /\ Len(preds) = 2
    /\ preds[1][1][1].score = One
    /\ ~RatGeq(preds[2][1][1].score, Rat(9, 10))
    /\ out.value[3][10] = 1

\* C7: for the empty batch squad returns without error and every value in
\* it is 0: EM, f1, top_n_accuracy, confidence and every entry of the three
\* per-bin lists; no nan is produced.
C7_EmptyBatchAllZero ==
    (out.op = "squad" /\ Len(preds) = 0) =>
        /\ out.kind = "ok"
        /\ out.value.EM = Zero
        /\ out.value.f1 = Zero
        /\ out.value.top_n_accuracy = Zero
        /\ out.value.confidence = Zero
        /\ \A k \in 1..10 : /\ out.value.em_per_bin[k] = Zero
                            /\ out.value.confidence_per_bin[k] = Zero
                            /\ out.value.count_per_bin[k] = 0

\* The fraction of the documents idx whose best candidate's start offset is
\* the start offset of one of the document's gold spans; 0 for no documents.
StartMatchFraction(idx) ==
    IF idx = {} THEN Zero
    ELSE Rat(Cardinality({i \in idx :
                 preds[i][1][1].offset_answer_start \in {g[1] : g \in labels[i]}}),
             Cardinality(idx))

\* C10: squad_EM_start, which gives em_per_bin for bins 1 to 9, counts a
\* document exactly when its best candidate's start offset is one of the
\* start offsets of the document's gold spans, whatever the end offsets; its
\* value is the fraction of such documents, 0 for a bin without documents.
C10_StartOnlyEM ==
    /\ (out.op = "squad_EM_start") => out.value = StartMatchFraction(1..Len(preds))
    /\ (out.op = "metrics_per_bin" /\ out.kind = "ok") =>
           \A b \in 1..9 :
               out.value[1][b + 1] =
                   StartMatchFraction({i \in 1..Len(preds) :
                       DocumentedBin(preds[i][1][1].score) = b})

(***************************************************************************)
(* Claims about the similarity rank metric (specification SpecSim).        *)
(***************************************************************************)
\* Query i's relevance vector has exactly one 1.
OneGold(i) == Cardinality({j \in DOMAIN labels[i] : labels[i][j] = 1}) = 1
\* The 0-based index of query i's relevant candidate.
GoldIndex(i) == (CHOOSE j \in DOMAIN labels[i] : labels[i][j] = 1) - 1
\* Query i's ranking contains its gold index.
GoldRanked(i) == \E k \in DOMAIN preds[i] : preds[i][k] = GoldIndex(i)
\* The 0-based position of the gold index within query i's own ranking.
GoldPosition(i) == (CHOOSE k \in DOMAIN preds[i] : preds[i][k] = GoldIndex(i)) - 1

\* The sum of the gold positions of queries 1 to n.
RECURSIVE GoldPositionSum(_)
GoldPositionSum(n) == IF n = 0 THEN 0 ELSE GoldPosition(n) + GoldPositionSum(n - 1)

\* C8: for a non-empty batch in which each relevance vector has exactly one
\* 1, text_similarity_avg_ranks returns the mean over the queries of the
\* 0-based position of the query's gold index in its own ranking when every
\* ranking contains its gold index (0 when every gold passage is ranked
\* first), and raises an error instead when some ranking lacks it.
C8_AverageGoldRank ==
    (/\ out.op = "text_similarity_avg_ranks"
     /\ Len(preds) > 0
     /\ \A i \in 1..Len(preds) : OneGold(i)) =>
        IF \A i \in 1..Len(preds) : GoldRanked(i)
        THEN /\ out.kind = "ok"
             /\ out.value = Rat(GoldPositionSum(Len(preds)), Len(preds))
             /\ (\A i \in 1..Len(preds) : preds[i][1] = GoldIndex(i)) => out.value = Zero
        ELSE out.kind # "ok"

\* C8 witness: two queries with one gold passage each, ranked first in one
\* ranking and second in the other, gave the mean rank 1/2.
C8_Witness ==
    /\ out.op = "text_similarity_avg_ranks"
    /\ Len(preds) = 2
    /\ \A i \in 1..2 : OneGold(i) /\ GoldRanked(i)
    /\ GoldPosition(1) = 0
    /\ GoldPosition(2) = 1
    /\ out.kind = "ok"
    /\ out.value = Rat(1, 2)

=============================================================================
